---- MODULE Spec2Model ----
(***************************************************************************)
(* frisbii request-logging middleware (logmiddlware.go).                   *)
(*                                                                         *)
(* One request served by LogMiddleware.ServeHTTP: the middleware builds a  *)
(* LoggingResponseWriter around the real http.ResponseWriter, runs the     *)
(* downstream handler, and a deferred call emits the log record.  The      *)
(* downstream handler is the environment: it issues any sequence of        *)
(* WriteHeader, Write, LogError and Log calls on the wrapper and then      *)
(* returns or panics.  The real sink and the log sink are environments     *)
(* too: the model records every call they receive and draws their results  *)
(* from small sets.                                                        *)
(***************************************************************************)
EXTENDS Integers, Sequences, FiniteSets, TLC

VARIABLES
    pc,             \* position of ServeHTTP: "idle", "handler", "returned", "panicked"
    status,         \* LoggingResponseWriter.status
    wroteBytes,     \* LoggingResponseWriter.wroteBytes
    sentBytes,      \* LoggingResponseWriter.sentBytes
    wrote,          \* LoggingResponseWriter.wrote (a record has been emitted)
    logWriter,      \* the writes the log sink has received, in order
    ResponseWriter, \* the calls the real sink has received, in order
    calls,          \* history: the calls the handler made on the wrapper
    hijacker,       \* the real sink implements http.Hijacker
    req,            \* the request: its RemoteAddr, as a sequence of characters
    goroutines,     \* concurrent requests: each goroutine's position and locals
    heap,           \* concurrent requests: the LoggingResponseWriters allocated
    sharedLog       \* concurrent requests: the writes the one log sink received

\* the variables of the concurrent view, and those the methods never assign
others == <<hijacker, req, goroutines, heap, sharedLog>>

vars == <<pc, status, wroteBytes, sentBytes, wrote, logWriter, ResponseWriter, calls,
          hijacker, req, goroutines, heap, sharedLog>>

(***************************************************************************)
(* Bounds and input sets.                                                  *)
(***************************************************************************)
\* the handler makes at most this many calls on the wrapper
MaxCalls == 3

\* http.StatusOK
StatusOK == 200

\* status codes the handler passes; 0 is the zero value of int
Codes == {0, StatusOK, 500}

\* len(b) of the slices the handler writes
WriteLens == {0, 10, 100}

\* time.Since(start) at finalization, in nanoseconds
ElapsedNs == {999999, 2500000}

\* error values: a chain of messages, outermost first; e[i] wraps e[i+1]
Errs == {<<"EOF">>, <<"upload failed", "disk full", "ENOSPC">>}

\* what the real sink may report for a write of len bytes: 0 <= n <= len, and
\* a short write carries an error (io.Writer)
SinkResults(len) ==
    {r \in [n : {0, len \div 2, len}, err : BOOLEAN] : r.n < len => r.err}

\* no concurrent request is being served
NoGoroutines ==
    /\ goroutines = <<>>
    /\ heap = <<>>
    /\ sharedLog = <<>>

(***************************************************************************)
(* Pure helpers.                                                           *)
(***************************************************************************)
\* errors.Unwrap: the wrapped error, or nil (the empty chain)
Unwrap(err) == IF Len(err) > 1 THEN Tail(err) ELSE <<>>

\* err.Error()
ErrorMsg(err) == Head(err)

\* the loop of LogError: follow Unwrap until nil, keep the last message
RECURSIVE UnwrapLoop(_, _)
UnwrapLoop(err, msg) ==
    LET e == Unwrap(err)
    IN  IF e # <<>> THEN UnwrapLoop(e, ErrorMsg(e)) ELSE msg

RootCauseOuter(err) == ErrorMsg(err)

RootCause(err) == UnwrapLoop(err, ErrorMsg(err))

\* strings.Split(s, sep) for a one-character sep: the pieces around every sep
RECURSIVE Split(_, _)
Split(s, sep) ==
    IF \A k \in DOMAIN s : s[k] # sep
    THEN <<s>>
    ELSE LET k == CHOOSE j \in DOMAIN s :
                      s[j] = sep /\ \A l \in 1..(j - 1) : s[l] # sep
         IN  <<SubSeq(s, 1, k - 1)>> \o Split(SubSeq(s, k + 1, Len(s)), sep)

\* the remote-host field of Log: the first piece of RemoteAddr split at ":"
RemoteHost(addr) ==
    LET ss == Split(addr, ":")
    IN  IF Len(ss) > 0 THEN ss[1] ELSE addr

\* strconv.Quote on the messages of this model (none needs an escape)
Quote(s) == "\"" \o s \o "\""

\* time.Duration.Milliseconds: nanoseconds / 1e6, truncated
Milliseconds(d) == d \div 1000000

\* two decimal digits of a number of hundredths
TwoDigits(h) == IF h < 10 THEN "0" \o ToString(h) ELSE ToString(h)

\* float64 division a/b of two positive integers: the binary long division
\* after the leading bit, k bits to go; r is the remainder, odd the last bit
RECURSIVE MantissaBits(_, _, _, _)
MantissaBits(r, b, k, odd) ==
    IF k = 0 THEN [r |-> r, odd |-> odd]
    ELSE IF 2 * r >= b
         THEN MantissaBits(2 * r - b, b, k - 1, TRUE)
         ELSE MantissaBits(2 * r, b, k - 1, FALSE)

RECURSIVE ScaleUp(_, _)
ScaleUp(a, b) == IF a < b THEN ScaleUp(2 * a, b) ELSE a

RECURSIVE ScaleDown(_, _)
ScaleDown(a, b) == IF a >= 2 * b THEN ScaleDown(a, 2 * b) ELSE b

\* where the float64 quotient lies against the exact a/b: 1 above, -1 below,
\* 0 equal (53-bit mantissa, round to nearest, ties to even)
QuotientError(a, b) ==
    LET n == ScaleUp(a, b)
        d == ScaleDown(n, b)
        m == MantissaBits(n - d, d, 52, TRUE)
    IN  IF m.r = 0 THEN 0
        ELSE IF 2 * m.r > d \/ (2 * m.r = d /\ m.odd) THEN 1 ELSE -1

\* fmt.Sprintf("%.2f", float64(a)/float64(b)): the float64 quotient rounded
\* to hundredths, an exact half to the even digit
Sprintf2f(a, b) ==
    LET fl  == (100 * a) \div b
        rem == (100 * a) % b
        up  == \/ 2 * rem > b
               \/ /\ 2 * rem = b
                  /\ \/ QuotientError(a, b) > 0
                     \/ QuotientError(a, b) = 0 /\ fl % 2 = 1
        h   == IF up THEN fl + 1 ELSE fl
    IN  ToString(h \div 100) \o "." \o TwoDigits(h % 100)

CompressionRatioInverse ==
    IF sentBytes = 0 \/ wroteBytes = 0 \/ wroteBytes = sentBytes
    THEN "-"
    ELSE LET s == Sprintf2f(sentBytes, wroteBytes)
         IN  IF s = "0.00" THEN "-" ELSE s

CompressionRatio ==
    IF sentBytes = 0 \/ wroteBytes = 0 \/ wroteBytes = sentBytes
    THEN "-"
    ELSE LET s == Sprintf2f(wroteBytes, sentBytes)
         IN  IF s = "0.00" THEN "-" ELSE s

\* the fields of the wrapper and the lengths of the two sinks' histories
Snap ==
    [status |-> status, wroteBytes |-> wroteBytes, sentBytes |-> sentBytes,
     wrote |-> wrote, nSink |-> Len(ResponseWriter), nLog |-> Len(logWriter)]

\* one entry of the call history, written once the call's effects are known
CallRec(op, code, len, err, ret) ==
    [op |-> op, code |-> code, len |-> len, err |-> err, ret |-> ret,
     pre |-> Snap, post |-> Snap']

NoRet == [n |-> 0, err |-> FALSE]

(***************************************************************************)
(* LoggingResponseWriter.                                                  *)
(***************************************************************************)
LogGuardNever == FALSE

\* Log returns at once when a record was already emitted
LogGuard == wrote

\* Log: at most one formatted line, written to the log sink in one call;
\* the sink's error (ok = FALSE) is dropped
Log(st, duration, bytes, ratio, msg, by, ok) ==
    IF LogGuard
    THEN UNCHANGED <<wrote, logWriter>>
    ELSE /\ wrote' = TRUE
         /\ logWriter' = Append(logWriter,
                [remote |-> RemoteHost(req.RemoteAddr),
                 status |-> st, durationMs |-> Milliseconds(duration),
                 bytes |-> bytes, ratio |-> ratio, msg |-> Quote(msg),
                 by |-> by, ok |-> ok])

\* http.Error(w, text, code) on the real sink: the header, then one line
HttpError(text, code) ==
    << [op |-> "WriteHeader", code |-> code, len |-> 0, text |-> "",
        n |-> 0, err |-> FALSE, by |-> "LogError",
        statusAt |-> code, sentAt |-> sentBytes],
       [op |-> "Write", code |-> 0, len |-> Len(text) + 1, text |-> text \o "\n",
        n |-> Len(text) + 1, err |-> FALSE, by |-> "LogError",
        statusAt |-> code, sentAt |-> sentBytes] >>

ErrorResponseGateAlways == TRUE

\* LogError writes the client-facing response only if nothing was sent
ErrorResponseGate == sentBytes = 0

LogErrorBytesSent == sentBytes

\* the bytes argument LogError passes to Log
LogErrorBytes == 0

LogErrorStopsOnLogFailure(st, err, ok) ==
    /\ pc = "handler"
    /\ Len(calls) < MaxCalls
    /\ Log(st, 0, LogErrorBytes, "-", RootCause(err), "LogError", ok)
    /\ status' = st
    /\ IF ErrorResponseGate /\ (wrote \/ ok)
       THEN ResponseWriter' = ResponseWriter \o HttpError(Quote(RootCause(err)), st)
       ELSE UNCHANGED ResponseWriter
    /\ UNCHANGED <<pc, wroteBytes, sentBytes>>
    /\ calls' = Append(calls, CallRec("LogError", st, 0, err, NoRet))
    /\ UNCHANGED others

LogError(st, err, ok) ==
    /\ pc = "handler"
    /\ Len(calls) < MaxCalls
    /\ Log(st, 0, LogErrorBytes, "-", RootCause(err), "LogError", ok)
    /\ status' = st
    /\ IF ErrorResponseGate
       THEN ResponseWriter' = ResponseWriter \o HttpError(Quote(RootCause(err)), st)
       ELSE UNCHANGED ResponseWriter
    /\ UNCHANGED <<pc, wroteBytes, sentBytes>>
    /\ calls' = Append(calls, CallRec("LogError", st, 0, err, NoRet))
    /\ UNCHANGED others

WriteHeaderStatusFirstWins(code) == IF status = 0 THEN code ELSE status

\* the status WriteHeader records
WriteHeaderStatus(code) == code

WriteHeaderNoDelegate(code) ==
    /\ pc = "handler"
    /\ Len(calls) < MaxCalls
    /\ status' = WriteHeaderStatus(code)
    /\ UNCHANGED <<pc, wroteBytes, sentBytes, wrote, logWriter, ResponseWriter>>
    /\ calls' = Append(calls, CallRec("WriteHeader", code, 0, <<>>, NoRet))
    /\ UNCHANGED others

WriteHeader(code) ==
    /\ pc = "handler"
    /\ Len(calls) < MaxCalls
    /\ status' = WriteHeaderStatus(code)
    /\ ResponseWriter' = Append(ResponseWriter,
            [op |-> "WriteHeader", code |-> code, len |-> 0, text |-> "",
             n |-> 0, err |-> FALSE, by |-> "WriteHeader",
             statusAt |-> status', sentAt |-> sentBytes])
    /\ UNCHANGED <<pc, wroteBytes, sentBytes, wrote, logWriter>>
    /\ calls' = Append(calls, CallRec("WriteHeader", code, 0, <<>>, NoRet))
    /\ UNCHANGED others

DefaultStatusNone(s) == s

\* Write defaults an unset status to 200 before it delegates
DefaultStatus(s) == IF s = 0 THEN StatusOK ELSE s

SentAfterLen(len, n) == sentBytes + len

\* sentBytes after a write of len bytes of which the sink accepted n
SentAfter(len, n) == sentBytes + n

\* what Write returns to the handler
WriteReturn(len, n, err) == [n |-> n, err |-> err]

Write(len, n, err) ==
    /\ pc = "handler"
    /\ Len(calls) < MaxCalls
    /\ status' = DefaultStatus(status)
    /\ ResponseWriter' = Append(ResponseWriter,
            [op |-> "Write", code |-> 0, len |-> len, text |-> "",
             n |-> n, err |-> err, by |-> "Write",
             statusAt |-> status', sentAt |-> sentBytes])
    /\ sentBytes' = SentAfter(len, n)
    /\ UNCHANGED <<pc, wroteBytes, wrote, logWriter>>
    /\ calls' = Append(calls, CallRec("Write", 0, len, <<>>, WriteReturn(len, n, err)))
    /\ UNCHANGED others

\* the handler calls the exported Log itself
CallLog(st, ok) ==
    /\ pc = "handler"
    /\ Len(calls) < MaxCalls
    /\ Log(st, 1000000, 1, "-", "handler", "handler", ok)
    /\ UNCHANGED <<pc, status, wroteBytes, sentBytes, ResponseWriter>>
    /\ calls' = Append(calls, CallRec("Log", st, 0, <<>>, NoRet))
    /\ UNCHANGED others

(***************************************************************************)
(* LogMiddleware.                                                          *)
(***************************************************************************)
\* NewLoggingResponseWriter: every counter at its zero value
NewLoggingResponseWriter ==
    /\ status' = 0
    /\ wroteBytes' = 0
    /\ sentBytes' = 0
    /\ wrote' = FALSE

\* ServeHTTP up to the call of the downstream handler
ServeHTTP ==
    /\ pc = "idle"
    /\ NewLoggingResponseWriter
    /\ pc' = "handler"
    /\ UNCHANGED <<logWriter, ResponseWriter, calls>>
    /\ UNCHANGED others

DeferredStatusCoerced == IF status = 0 THEN StatusOK ELSE status

\* the status argument of the deferred Log
DeferredStatus == status

DeferredBytesWrote == wroteBytes

\* the bytes argument of the deferred Log
DeferredBytes == sentBytes

\* the deferred function of ServeHTTP
Deferred(elapsed, ok) ==
    Log(DeferredStatus, elapsed, DeferredBytes, CompressionRatio, "", "defer", ok)

\* the handler returns (at its end or early); the deferred function runs
HandlerReturn(elapsed, ok) ==
    /\ pc = "handler"
    /\ Deferred(elapsed, ok)
    /\ pc' = "returned"
    /\ UNCHANGED <<status, wroteBytes, sentBytes, ResponseWriter, calls>>
    /\ UNCHANGED others

HandlerPanicNoDefer(elapsed, ok) ==
    /\ pc = "handler"
    /\ pc' = "panicked"
    /\ UNCHANGED <<status, wroteBytes, sentBytes, wrote, logWriter, ResponseWriter, calls>>
    /\ UNCHANGED others

\* the handler panics; the deferred function runs while the panic unwinds
HandlerPanic(elapsed, ok) ==
    /\ pc = "handler"
    /\ Deferred(elapsed, ok)
    /\ pc' = "panicked"
    /\ UNCHANGED <<status, wroteBytes, sentBytes, ResponseWriter, calls>>
    /\ UNCHANGED others

Init ==
    /\ pc = "idle"
    /\ status = 0
    /\ wroteBytes = 0
    /\ sentBytes = 0
    /\ wrote = FALSE
    /\ logWriter = <<>>
    /\ ResponseWriter = <<>>
    /\ calls = <<>>
    /\ hijacker = FALSE
    /\ req = [RemoteAddr |-> <<"1", "0", ".", "1", ":", "8", "0">>]
    /\ NoGoroutines

Next ==
    \/ ServeHTTP
    \/ \E code \in Codes : WriteHeader(code)
    \/ \E len \in WriteLens : \E r \in SinkResults(len) : Write(len, r.n, r.err)
    \/ \E st \in Codes : \E err \in Errs : \E ok \in BOOLEAN : LogError(st, err, ok)
    \/ \E st \in Codes : \E ok \in BOOLEAN : CallLog(st, ok)
    \/ \E elapsed \in ElapsedNs : \E ok \in BOOLEAN : HandlerReturn(elapsed, ok)
    \/ \E elapsed \in ElapsedNs : \E ok \in BOOLEAN : HandlerPanic(elapsed, ok)

Spec == Init /\ [][Next]_vars

Done == pc \in {"returned", "panicked"}

(***************************************************************************)
(* Reading the history.                                                    *)
(***************************************************************************)
CallsOf(op) == {i \in DOMAIN calls : calls[i].op = op}

\* the calls that reached Log before any record existed
Emitting(op) == {i \in CallsOf(op) : ~calls[i].pre.wrote}

\* the record LogError(st, err) hands to Log, as the log sink receives it
ErrorRecord(st, err, ok) ==
    [remote |-> logWriter[1].remote,
     status |-> st, durationMs |-> 0, bytes |-> 0, ratio |-> "-",
     msg |-> Quote(RootCause(err)), by |-> "LogError", ok |-> ok]

\* has a Write through the wrapper had bytes accepted among the first k sink calls
BytesAccepted(k) ==
    \E j \in 1..k : ResponseWriter[j].by = "Write" /\ ResponseWriter[j].n > 0

(***************************************************************************)
(* C1: by the time ServeHTTP has returned control (normally or by a        *)
(* propagating panic) the log sink has received exactly one record,        *)
(* whatever calls the handler made; at no time has it received two.        *)
(***************************************************************************)
C1_ExactlyOneRecord ==
    /\ Len(logWriter) <= 1
    /\ Done => Len(logWriter) = 1

C1_Witness ==
    /\ pc = "panicked"
    /\ CallsOf("LogError") # {}
    /\ CallsOf("Log") # {}
    /\ CallsOf("Write") # {}
    /\ Len(logWriter) = 1

(***************************************************************************)
(* C2 (as stated): every LogError call that was made has a record in the   *)
(* log sink carrying its status and its error's root-cause message.        *)
(***************************************************************************)
C2_EveryLogErrorLogged ==
    \A i \in CallsOf("LogError") :
        \E k \in DOMAIN logWriter :
            /\ logWriter[k].status = calls[i].code
            /\ logWriter[k].msg = Quote(RootCause(calls[i].err))

(***************************************************************************)
(* C2 (amended): a LogError call is logged exactly when no record was      *)
(* emitted before it: then it appends one record with its status and       *)
(* root-cause message; a LogError call made after a record was emitted (a  *)
(* second LogError, or one after Log) appends nothing.                     *)
(***************************************************************************)
C2_LogErrorLoggedIfFirst ==
    \A i \in CallsOf("LogError") :
        LET c == calls[i]
        IN  IF c.pre.wrote
            THEN c.post.nLog = c.pre.nLog
            ELSE /\ c.pre.nLog = 0
                 /\ c.post.nLog = 1
                 /\ logWriter[1].by = "LogError"
                 /\ logWriter[1].status = c.code
                 /\ logWriter[1].msg = Quote(RootCause(c.err))

C2_Witness ==
    \E i, j \in CallsOf("LogError") :
        /\ i < j
        /\ calls[i].code # calls[j].code
        /\ RootCause(calls[i].err) # RootCause(calls[j].err)
        /\ ~calls[i].pre.wrote

C4_ErrorRecordFields ==
    /\ \A i \in CallsOf("LogError") : calls[i].post.status = calls[i].code
    /\ \A i \in Emitting("LogError") :
           logWriter = <<ErrorRecord(calls[i].code, calls[i].err, logWriter[1].ok)>>

C4_Witness ==
    /\ Done
    /\ \E i \in Emitting("LogError") :
           /\ calls[i].pre.sentBytes > 0
           /\ calls[i].pre.status # calls[i].code
           /\ i < Len(calls)
           /\ Len(calls[i].err) > 1

(***************************************************************************)
(* C5 (as stated): the bytes field of every record, whether emitted by the *)
(* finalizing call or by LogError, equals sentBytes at its emission.       *)
(***************************************************************************)
C5_BytesAlwaysSentBytes ==
    /\ \A i \in Emitting("LogError") : logWriter[1].bytes = calls[i].pre.sentBytes
    /\ (Done /\ logWriter # <<>> /\ logWriter[1].by = "defer") =>
           logWriter[1].bytes = sentBytes

(***************************************************************************)
(* C5 (amended): the record emitted by the finalizing call carries         *)
(* sentBytes as it is at that moment; the record emitted by LogError       *)
(* carries bytes 0, whatever sentBytes is.                                 *)
(***************************************************************************)
C5_BytesByEmitter ==
    /\ \A i \in Emitting("LogError") : logWriter[1].bytes = 0
    /\ (Done /\ logWriter # <<>> /\ logWriter[1].by = "defer") =>
           logWriter[1].bytes = sentBytes

C5_Witness ==
    \E i \in Emitting("LogError") :
        /\ calls[i].pre.sentBytes = 110
        /\ logWriter[1].bytes = 0

(***************************************************************************)
(* C6: when the handler never calls Log or LogError, the one record is the *)
(* finalizing one and carries the status and sentBytes recorded when the   *)
(* handler exits, the CompressionRatio() of that moment and the empty      *)
(* message; a handler that made no call at all is logged with status 0 and *)
(* bytes 0, and one that ends with status 200 and 100 bytes accepted with  *)
(* 200 and 100.                                                            *)
(***************************************************************************)
C6_FinalRecordFields ==
    (Done /\ CallsOf("Log") = {} /\ CallsOf("LogError") = {}) =>
        /\ Len(logWriter) = 1
        /\ logWriter[1].by = "defer"
        /\ logWriter[1].status = status
        /\ logWriter[1].bytes = sentBytes
        /\ logWriter[1].ratio = CompressionRatio
        /\ logWriter[1].msg = Quote("")
        /\ (CallsOf("WriteHeader") = {} /\ CallsOf("Write") = {}) =>
               (logWriter[1].status = 0 /\ logWriter[1].bytes = 0)
        /\ (status = StatusOK /\ sentBytes = 100) =>
               (logWriter[1].status = 200 /\ logWriter[1].bytes = 100)

C6_Witness ==
    /\ Done
    /\ CallsOf("Log") = {} /\ CallsOf("LogError") = {}
    /\ CallsOf("WriteHeader") # {}
    /\ logWriter[1].status = 200
    /\ logWriter[1].bytes = 100
    /\ logWriter[1].msg = "\"\""

(***************************************************************************)
(* C7: a Write made while the recorded status is 0 sets it to 200, and the *)
(* real sink is called with the status already 200 and sentBytes not yet   *)
(* advanced; a Write made while the status is non-zero leaves it as it is. *)
(***************************************************************************)
C7_WriteDefaultsStatus ==
    \A i \in CallsOf("Write") :
        LET c == calls[i]
            d == ResponseWriter[c.post.nSink]
        IN  /\ c.post.status = (IF c.pre.status = 0 THEN 200 ELSE c.pre.status)
            /\ d.op = "Write"
            /\ d.statusAt = c.post.status
            /\ d.sentAt = c.pre.sentBytes

C7_Witness ==
    \E i, j \in CallsOf("Write") :
        /\ calls[i].pre.status = 0 /\ calls[i].post.status = 200
        /\ calls[j].pre.status = 500 /\ calls[j].post.status = 500

(***************************************************************************)
(* C8 (as stated): with no LogError call, the recorded status is the code  *)
(* of the first WriteHeader call, whatever WriteHeader and Write calls     *)
(* follow it (stated for WriteHeader codes that are statuses, not 0).       *)
(***************************************************************************)
FirstOf(S) == CHOOSE i \in S : \A j \in S : i <= j

LastOf(S) == CHOOSE i \in S : \A j \in S : j <= i

C8_FirstStatusWins ==
    (CallsOf("LogError") = {} /\ CallsOf("WriteHeader") # {}) =>
        LET c1 == calls[FirstOf(CallsOf("WriteHeader"))].code
        IN  (\A i \in CallsOf("WriteHeader") : calls[i].code # 0) => status = c1

(***************************************************************************)
(* C8 (amended): the latest explicit status set wins.  With no LogError    *)
(* call, the recorded status is the code of the most recent WriteHeader    *)
(* call (200 instead when that code is 0 and a Write followed it), and the *)
(* finalizing record carries it; Write changes the status only from 0 and  *)
(* Log never does.                                                         *)
(***************************************************************************)
C8_LatestStatusWins ==
    /\ (CallsOf("LogError") = {} /\ CallsOf("WriteHeader") # {}) =>
           LET l == LastOf(CallsOf("WriteHeader"))
               w == \E j \in CallsOf("Write") : j > l
           IN  /\ status = (IF calls[l].code = 0 /\ w THEN 200 ELSE calls[l].code)
               /\ (Done /\ logWriter[1].by = "defer") => logWriter[1].status = status
    /\ \A i \in CallsOf("WriteHeader") : calls[i].post.status = calls[i].code
    /\ \A i \in CallsOf("Write") :
           calls[i].pre.status # 0 => calls[i].post.status = calls[i].pre.status
    /\ \A i \in CallsOf("Log") : calls[i].post.status = calls[i].pre.status

C8_Witness ==
    /\ Done
    /\ CallsOf("LogError") = {}
    /\ \E i, j \in CallsOf("WriteHeader") :
           /\ i < j
           /\ calls[i].code = 200
           /\ calls[j].code = 500
           /\ \E k \in CallsOf("Write") : k > j
    /\ logWriter[1].by = "defer"
    /\ logWriter[1].status = 500

(***************************************************************************)
(* C9: once the recorded status is non-zero, no WriteHeader, Write or      *)
(* LogError call, whatever its argument, makes it 0 again.                 *)
(***************************************************************************)
C9_NoReturnToUnset ==
    \A i \in DOMAIN calls : calls[i].pre.status # 0 => calls[i].post.status # 0

(***************************************************************************)
(* C10: every Write reaches the real sink exactly once with the handler's  *)
(* slice, hands the sink's (n, err) back unchanged and adds exactly n to   *)
(* sentBytes, on errors and short writes too; so sentBytes is the sum of   *)
(* the counts the sink reported for the wrapper's Write calls, and no call *)
(* lowers it.                                                              *)
(***************************************************************************)
RECURSIVE SumAccepted(_)
SumAccepted(k) ==
    IF k = 0 THEN 0
    ELSE SumAccepted(k - 1) +
         (IF ResponseWriter[k].by = "Write" THEN ResponseWriter[k].n ELSE 0)

C10_WriteCountsAccepted ==
    /\ \A i \in CallsOf("Write") :
           LET c == calls[i]
               d == ResponseWriter[c.post.nSink]
           IN  /\ c.post.nSink = c.pre.nSink + 1
               /\ d.op = "Write" /\ d.len = c.len
               /\ c.ret = [n |-> d.n, err |-> d.err]
               /\ c.post.sentBytes = c.pre.sentBytes + d.n
    /\ sentBytes = SumAccepted(Len(ResponseWriter))
    /\ \A i \in DOMAIN calls : calls[i].post.sentBytes >= calls[i].pre.sentBytes

C10_Witness ==
    /\ CallsOf("LogError") # {}
    /\ \E i, j \in CallsOf("Write") :
           /\ calls[i].ret.err /\ calls[i].ret.n = 5 /\ calls[i].len = 10
           /\ ~calls[j].ret.err /\ calls[j].ret.n = 100
    /\ sentBytes = 105

(***************************************************************************)
(* C11: wroteBytes counts the bytes the handler attempted to write: after  *)
(* any sequence of Write(b) calls it equals the sum of len(b), so that a   *)
(* sink accepting a different non-zero count yields a two-decimal ratio    *)
(* and not "-".                                                            *)
(***************************************************************************)
RECURSIVE SumAttempted(_)
SumAttempted(k) ==
    IF k = 0 THEN 0
    ELSE SumAttempted(k - 1) + (IF calls[k].op = "Write" THEN calls[k].len ELSE 0)

C11_WroteBytesCountsAttempted ==
    /\ wroteBytes = SumAttempted(Len(calls))
    /\ (sentBytes # 0 /\ SumAttempted(Len(calls)) # sentBytes) => CompressionRatio # "-"

(***************************************************************************)
(* C14: for a handler that calls only WriteHeader and Write (Log touches   *)
(* no sink), the real sink receives exactly the handler's header-writes    *)
(* and byte-writes, with the same arguments and in the same order, and     *)
(* every Write returns what the real sink reported.                        *)
(***************************************************************************)
C14_TransparentOnHappyPath ==
    CallsOf("LogError") = {} =>
        /\ Len(ResponseWriter) =
               Cardinality(CallsOf("WriteHeader") \cup CallsOf("Write"))
        /\ \A i \in CallsOf("WriteHeader") \cup CallsOf("Write") :
               LET c == calls[i]
                   d == ResponseWriter[c.post.nSink]
               IN  /\ c.post.nSink = c.pre.nSink + 1
                   /\ d.op = c.op
                   /\ d.code = c.code
                   /\ d.len = c.len
                   /\ c.op = "Write" => c.ret = [n |-> d.n, err |-> d.err]
        /\ \A i \in CallsOf("Log") : calls[i].post.nSink = calls[i].pre.nSink

C14_Witness ==
    /\ Done
    /\ CallsOf("LogError") = {}
    /\ Len(ResponseWriter) = 3
    /\ ResponseWriter[1].op = "WriteHeader" /\ ResponseWriter[1].code = 500
    /\ ResponseWriter[2].op = "Write" /\ ResponseWriter[2].len = 10
    /\ ResponseWriter[3].op = "Write" /\ ResponseWriter[3].len = 100
    /\ ResponseWriter[3].n = 50

(***************************************************************************)
(* C17: LogError writes its error response only to a real sink that has    *)
(* received nothing so far, no header-write and no bytes; so the sink      *)
(* gets at most one error response per request, never one after a header   *)
(* set by WriteHeader or after the body of an earlier LogError.            *)
(***************************************************************************)
C17_ErrorResponseOnlyOnFreshSink ==
    \A i \in CallsOf("LogError") :
        calls[i].post.nSink > calls[i].pre.nSink => calls[i].pre.nSink = 0

(***************************************************************************)
(* C18: a log-sink write that fails changes nothing of the response: Log   *)
(* calls nothing on the real sink and leaves status, sentBytes and         *)
(* wroteBytes alone, in the handler's calls and in the finalizing call,    *)
(* whether the sink took the record or not; ServeHTTP still returns; and   *)
(* LogError still writes the client error response after a failed log      *)
(* write when no bytes were sent.                                          *)
(***************************************************************************)
\* the wrapper as the handler's last call left it
LastPost ==
    IF calls = <<>>
    THEN [status |-> 0, wroteBytes |-> 0, sentBytes |-> 0, nSink |-> 0]
    ELSE [f \in {"status", "wroteBytes", "sentBytes", "nSink"} |->
              calls[Len(calls)].post[f]]

C18_LogFailureLeavesResponse ==
    /\ \A i \in CallsOf("Log") :
           \A f \in {"status", "wroteBytes", "sentBytes", "nSink"} :
               calls[i].post[f] = calls[i].pre[f]
    /\ pc # "idle" =>
           /\ status = LastPost.status
           /\ wroteBytes = LastPost.wroteBytes
           /\ sentBytes = LastPost.sentBytes
           /\ Len(ResponseWriter) = LastPost.nSink
    /\ \A i \in Emitting("LogError") :
           (~logWriter[1].ok /\ calls[i].pre.sentBytes = 0) =>
               /\ calls[i].post.nSink = calls[i].pre.nSink + 2
               /\ calls[i].post.status = calls[i].code

C18_Witness ==
    /\ Done
    /\ \E i \in Emitting("LogError") :
           /\ ~logWriter[1].ok
           /\ calls[i].post.nSink = calls[i].pre.nSink + 2
           /\ \E j \in CallsOf("Write") : j < i

(***************************************************************************)
(* CompressionRatio on its own: a LoggingResponseWriter whose two counters *)
(* hold any values of a range, and one call of the method.                 *)
(***************************************************************************)
\* the counters range over 0..MaxWrote and 0..MaxSent
MaxWrote == 12

MaxSent == 420

InitRatio ==
    /\ pc = "handler"
    /\ status = 0
    /\ wroteBytes \in 0..MaxWrote
    /\ sentBytes \in 0..MaxSent
    /\ wrote = FALSE
    /\ logWriter = <<>>
    /\ ResponseWriter = <<>>
    /\ calls = <<>>
    /\ hijacker = FALSE
    /\ req = [RemoteAddr |-> <<"1", "0", ".", "1", ":", "8", "0">>]
    /\ NoGoroutines

\* one call of CompressionRatio(); the history keeps the string it returns
CallCompressionRatio ==
    /\ pc = "handler"
    /\ calls = <<>>
    /\ UNCHANGED <<pc, status, wroteBytes, sentBytes, wrote, logWriter, ResponseWriter>>
    /\ calls' = Append(calls, CallRec("CompressionRatio", 0, 0, <<>>,
                                      [n |-> 0, err |-> FALSE, s |-> CompressionRatio]))
    /\ UNCHANGED others

NextRatio == CallCompressionRatio

RatioSpec == InitRatio /\ [][NextRatio]_vars

\* a number of hundredths as "%.2f" prints it
Render(h) ==
    ToString(h \div 100) \o "." \o ToString((h % 100) \div 10) \o ToString(h % 10)

\* the hundredths nearest to a/b (two of them when a/b lies halfway)
Nearest(a, b) ==
    {h \in 0..((100 * a) \div b + 1) :
        2 * (IF 100 * a >= h * b THEN 100 * a - h * b ELSE h * b - 100 * a) <= b}

(***************************************************************************)
(* C12: CompressionRatio() returns "-" when a counter is 0, when the two   *)
(* are equal, or when wroteBytes/sentBytes rounds to 0.00; otherwise it    *)
(* returns wroteBytes/sentBytes (not the inverse) rounded to the nearest   *)
(* hundredth and printed with two decimals; it changes no state.           *)
(***************************************************************************)
C12_CompressionRatioValue ==
    \A i \in CallsOf("CompressionRatio") :
        LET c == calls[i]
            w == c.pre.wroteBytes
            s == c.pre.sentBytes
        IN  /\ c.post = c.pre
            /\ IF w = 0 \/ s = 0 \/ w = s
               THEN c.ret.s = "-"
               ELSE \E h \in Nearest(w, s) :
                        c.ret.s = (IF h = 0 THEN "-" ELSE Render(h))

C12_Witness ==
    \E i \in CallsOf("CompressionRatio") :
        /\ calls[i].pre.wroteBytes = 10
        /\ calls[i].pre.sentBytes = 4
        /\ calls[i].ret.s = "2.50"

(***************************************************************************)
(* LogError over every chain of wrapped errors up to a length.             *)
(***************************************************************************)
\* the longest chain of wrapped errors
MaxChain == 3

Msgs == {"upload failed", "disk full", "ENOSPC"}

\* every chain e0 wrapping e1 ... wrapping en of at most MaxChain errors
Chains == UNION {[1..k -> Msgs] : k \in 1..MaxChain}

NextErr ==
    \/ ServeHTTP
    \/ \E r \in SinkResults(10) : Write(10, r.n, r.err)
    \/ \E err \in Chains : \E ok \in BOOLEAN :
           /\ \A i \in DOMAIN calls : calls[i].op # "LogError"
           /\ LogError(500, err, ok)
    \/ \E elapsed \in ElapsedNs : \E ok \in BOOLEAN : HandlerReturn(elapsed, ok)
    \/ \E elapsed \in ElapsedNs : \E ok \in BOOLEAN : HandlerPanic(elapsed, ok)

ErrSpec == Init /\ [][NextErr]_vars

\* the message of the innermost error of a chain
Innermost(err) == err[Len(err)]

(***************************************************************************)
(* C19: for every chain of wrapped errors LogError returns and uses the    *)
(* message of the innermost error, not of an outer one, as the message of  *)
(* the log record and, quoted, as the body of the client-facing response;  *)
(* for an error that wraps nothing it uses that error's message.           *)
(***************************************************************************)
C19_InnermostMessage ==
    \A i \in CallsOf("LogError") :
        LET c == calls[i]
        IN  /\ c.post.status = c.code
            /\ ~c.pre.wrote =>
                   /\ Len(logWriter) = 1
                   /\ logWriter[1].msg = "\"" \o Innermost(c.err) \o "\""
            /\ c.pre.sentBytes = 0 =>
                   /\ c.post.nSink = c.pre.nSink + 2
                   /\ ResponseWriter[c.post.nSink].text =
                          "\"" \o Innermost(c.err) \o "\"" \o "\n"

C19_Witness ==
    \E i \in CallsOf("LogError") :
        /\ calls[i].err = <<"upload failed", "disk full", "ENOSPC">>
        /\ logWriter[1].msg = "\"ENOSPC\""
        /\ ResponseWriter[calls[i].post.nSink].text = "\"ENOSPC\"\n"

(***************************************************************************)
(* Hijack: the real sink may or may not implement http.Hijacker.           *)
(***************************************************************************)
\* what the real sink's Hijack may return: a connection, or its own error
HijackResults ==
    {[conn |-> "conn", rw |-> "rw", err |-> "nil"],
     [conn |-> "nil", rw |-> "nil", err |-> "hijack failed"]}

HijackUnsupportedSilent == [conn |-> "nil", rw |-> "nil", err |-> "nil"]

\* what Hijack returns when the real sink is no http.Hijacker
HijackUnsupported ==
    [conn |-> "nil", rw |-> "nil", err |-> "http.Hijacker not implemented"]

\* Hijack: delegate when the real sink has the capability (res is what the
\* sink returns), fail otherwise
Hijack(res) ==
    /\ pc = "handler"
    /\ Len(calls) < MaxCalls
    /\ IF hijacker
       THEN ResponseWriter' = Append(ResponseWriter,
                [op |-> "Hijack", code |-> 0, len |-> 0, text |-> "",
                 n |-> 0, err |-> FALSE, by |-> "Hijack",
                 statusAt |-> status, sentAt |-> sentBytes, res |-> res])
       ELSE UNCHANGED ResponseWriter
    /\ UNCHANGED <<pc, status, wroteBytes, sentBytes, wrote, logWriter>>
    /\ UNCHANGED others
    /\ calls' = Append(calls, CallRec("Hijack", 0, 0, <<>>,
                                      IF hijacker THEN res ELSE HijackUnsupported))

InitHijack ==
    /\ pc = "idle"
    /\ status = 0
    /\ wroteBytes = 0
    /\ sentBytes = 0
    /\ wrote = FALSE
    /\ logWriter = <<>>
    /\ ResponseWriter = <<>>
    /\ calls = <<>>
    /\ hijacker \in BOOLEAN
    /\ req = [RemoteAddr |-> <<"1", "0", ".", "1", ":", "8", "0">>]
    /\ NoGoroutines

NextHijack ==
    \/ ServeHTTP
    \/ WriteHeader(StatusOK)
    \/ \E r \in SinkResults(10) : Write(10, r.n, r.err)
    \/ \E err \in Errs : \E ok \in BOOLEAN : LogError(500, err, ok)
    \/ \E res \in HijackResults : Hijack(res)
    \/ \E elapsed \in ElapsedNs : \E ok \in BOOLEAN : HandlerReturn(elapsed, ok)
    \/ \E elapsed \in ElapsedNs : \E ok \in BOOLEAN : HandlerPanic(elapsed, ok)

HijackSpec == InitHijack /\ [][NextHijack]_vars

(***************************************************************************)
(* C13: Hijack on a real sink without the capability returns an error and  *)
(* nil handles and calls nothing on the sink; with the capability it calls *)
(* the sink's Hijack once and returns its three results as they are; in    *)
(* both cases it emits no record and leaves status, sentBytes, wroteBytes  *)
(* and the already-logged flag alone.                                      *)
(***************************************************************************)
C13_HijackPassthrough ==
    \A i \in CallsOf("Hijack") :
        LET c == calls[i]
        IN  /\ IF hijacker
               THEN /\ c.post.nSink = c.pre.nSink + 1
                    /\ ResponseWriter[c.post.nSink].op = "Hijack"
                    /\ c.ret = ResponseWriter[c.post.nSink].res
               ELSE /\ c.post.nSink = c.pre.nSink
                    /\ c.ret.err # "nil"
                    /\ c.ret.conn = "nil"
                    /\ c.ret.rw = "nil"
            /\ \A f \in {"status", "sentBytes", "wroteBytes", "wrote", "nLog"} :
                   c.post[f] = c.pre[f]

C13_Witness ==
    /\ ~hijacker
    /\ Done
    /\ \E i \in CallsOf("Hijack") :
           /\ calls[i].ret.err = "http.Hijacker not implemented"
           /\ calls[i].pre.sentBytes = 10
           /\ calls[i].pre.status = 200
    /\ Len(logWriter) = 1

(***************************************************************************)
(* The remote-host field over a range of remote addresses.                 *)
(***************************************************************************)
\* the longest host, brackets not counted
MaxHostLen == 3

\* host characters: a letter, a digit and the colon of an IPv6 address
HostChars == {"h", "1", ":"}

Digits == {"0", "1", "8"}

HostTexts == UNION {[1..k -> HostChars] : k \in 1..MaxHostLen}

PlainHosts == {h \in HostTexts : \A k \in DOMAIN h : h[k] # ":"}

BracketedHosts == {<<"[">> \o h \o <<"]">> : h \in HostTexts}

\* host:port for every host (one holding ":" is bracketed), and a plain
\* host without a port
Addrs ==
    {h \o <<":", "8", "0">> : h \in PlainHosts \cup BracketedHosts} \cup PlainHosts

InitAddr ==
    /\ pc = "idle"
    /\ status = 0
    /\ wroteBytes = 0
    /\ sentBytes = 0
    /\ wrote = FALSE
    /\ logWriter = <<>>
    /\ ResponseWriter = <<>>
    /\ calls = <<>>
    /\ hijacker = FALSE
    /\ req \in [RemoteAddr : Addrs]
    /\ NoGoroutines

NextAddr ==
    \/ ServeHTTP
    \/ \E err \in Errs : \E ok \in BOOLEAN : LogError(500, err, ok)
    \/ \E elapsed \in ElapsedNs : \E ok \in BOOLEAN : HandlerReturn(elapsed, ok)
    \/ \E elapsed \in ElapsedNs : \E ok \in BOOLEAN : HandlerPanic(elapsed, ok)

AddrSpec == InitAddr /\ [][NextAddr]_vars

\* the address with its trailing ":port" removed, unchanged when it has none
StripPort(addr) ==
    LET colons == {k \in DOMAIN addr : addr[k] = ":"}
        last   == IF colons = {} THEN 0 ELSE LastOf(colons)
    IN  IF /\ last > 0
           /\ last < Len(addr)
           /\ \A j \in (last + 1)..Len(addr) : addr[j] \in Digits
        THEN SubSeq(addr, 1, last - 1)
        ELSE addr

(***************************************************************************)
(* C20: the remote-host field of every record is the remote address with   *)
(* only its trailing port removed, also for a bracketed IPv6 host holding  *)
(* ":" itself; an address without a port is embedded unchanged.            *)
(***************************************************************************)
C20_RemoteHostStripsPort ==
    \A k \in DOMAIN logWriter : logWriter[k].remote = StripPort(req.RemoteAddr)

(***************************************************************************)
(* Concurrent view.  Every request is served on its own goroutine; the     *)
(* goroutines share the middleware's log sink and nothing else.  Log is    *)
(* taken statement by statement: the test of w.wrote, its assignment, and  *)
(* the writes fmt.Fprintf issues on the sink, each write atomic.  A        *)
(* handler may start a goroutine of its own that uses the same             *)
(* LoggingResponseWriter.                                                  *)
(***************************************************************************)
\* requests served at the same time
NumRequests == 2

\* calls the goroutines make on the LoggingResponseWriters, all together
MaxOps == 2

\* the variables of the one-request view
single ==
    <<pc, status, wroteBytes, sentBytes, wrote, logWriter, ResponseWriter, calls,
      hijacker, req>>

NoLogCall == [status |-> 0, duration |-> 0, bytes |-> 0, ratio |-> "-", msg |-> ""]

\* a goroutine that has not started
Unstarted(kind) ==
    [pc |-> kind, lres |-> 0, child |-> FALSE, ops |-> 0, sent |-> 0,
     log |-> NoLogCall, ret |-> "", out |-> <<>>]

RECURSIVE OpsMade(_)
OpsMade(k) == IF k = 0 THEN 0 ELSE goroutines[k].ops + OpsMade(k - 1)

\* the line Log formats for writer i: ten fields and the newline
Line(i, a) ==
    <<"time", "host", "GET", "/" \o ToString(heap[i].url), ToString(a.status),
      ToString(Milliseconds(a.duration)), ToString(a.bytes), a.ratio,
      Quote("agent"), Quote(a.msg), "\n">>

FprintfUnbuffered(line) == [k \in 1..Len(line) |-> <<line[k]>>]

\* fmt.Fprintf formats into a buffer and calls the writer's Write once
Fprintf(line) == <<line>>

\* CompressionRatio() of writer i
CompressionRatioOf(i) ==
    IF heap[i].sentBytes = 0 \/ heap[i].wroteBytes = 0
           \/ heap[i].wroteBytes = heap[i].sentBytes
    THEN "-"
    ELSE LET s == Sprintf2f(heap[i].wroteBytes, heap[i].sentBytes)
         IN  IF s = "0.00" THEN "-" ELSE s

\* ServeHTTP: a new LoggingResponseWriter for this request
GoServeHTTP(g) ==
    /\ goroutines[g].pc = "idle"
    /\ heap' = Append(heap, [status |-> 0, wroteBytes |-> 0, sentBytes |-> 0,
                             wrote |-> FALSE, url |-> g])
    /\ goroutines' = [goroutines EXCEPT ![g].pc = "handler", ![g].lres = Len(heap) + 1]
    /\ UNCHANGED <<sharedLog, single>>

\* the handler starts a goroutine h that shares its LoggingResponseWriter
GoSpawn(g, h) ==
    /\ goroutines[g].pc = "handler"
    /\ ~goroutines[g].child
    /\ goroutines[h].pc = "unstarted"
    /\ goroutines' = [goroutines EXCEPT ![h].pc = "handler", ![h].child = TRUE,
                                        ![h].lres = goroutines[g].lres]
    /\ UNCHANGED <<heap, sharedLog, single>>

\* Write of the request's handler, the real sink accepting n bytes
GoWrite(g, n) ==
    /\ goroutines[g].pc = "handler"
    /\ ~goroutines[g].child
    /\ OpsMade(Len(goroutines)) < MaxOps
    /\ heap' = [heap EXCEPT ![goroutines[g].lres].status = DefaultStatus(@),
                            ![goroutines[g].lres].sentBytes = @ + n]
    /\ goroutines' = [goroutines EXCEPT ![g].ops = @ + 1, ![g].sent = @ + n]
    /\ UNCHANGED <<sharedLog, single>>

\* LogError up to its call of Log
GoLogError(g, st, err) ==
    /\ goroutines[g].pc = "handler"
    /\ OpsMade(Len(goroutines)) < MaxOps
    /\ goroutines' = [goroutines EXCEPT
            ![g].pc = "Log", ![g].ops = @ + 1, ![g].ret = "LogError",
            ![g].log = [status |-> st, duration |-> 0, bytes |-> 0,
                        ratio |-> "-", msg |-> RootCause(err)]]
    /\ UNCHANGED <<heap, sharedLog, single>>

\* the handler returns: the deferred function reads the counters and calls Log
GoReturn(g, elapsed) ==
    /\ goroutines[g].pc = "handler"
    /\ ~goroutines[g].child
    /\ goroutines' = [goroutines EXCEPT
            ![g].pc = "Log", ![g].ret = "defer",
            ![g].log = [status |-> heap[goroutines[g].lres].status,
                        duration |-> elapsed,
                        bytes |-> heap[goroutines[g].lres].sentBytes,
                        ratio |-> CompressionRatioOf(goroutines[g].lres),
                        msg |-> ""]]
    /\ UNCHANGED <<heap, sharedLog, single>>

\* Log: if w.wrote { return }
GoLogCheck(g) ==
    /\ goroutines[g].pc = "Log"
    /\ goroutines' = [goroutines EXCEPT
            ![g].pc = IF heap[goroutines[g].lres].wrote THEN "Log.ret" ELSE "Log.set"]
    /\ UNCHANGED <<heap, sharedLog, single>>

\* Log: w.wrote = true, and the line is formatted
GoLogSet(g) ==
    /\ goroutines[g].pc = "Log.set"
    /\ heap' = [heap EXCEPT ![goroutines[g].lres].wrote = TRUE]
    /\ goroutines' = [goroutines EXCEPT
            ![g].pc = "Log.write",
            ![g].out = Fprintf(Line(goroutines[g].lres, goroutines[g].log))]
    /\ UNCHANGED <<sharedLog, single>>

\* one Write call on the shared log sink
GoSinkWrite(g) ==
    /\ goroutines[g].pc = "Log.write"
    /\ sharedLog' = Append(sharedLog,
            [from |-> goroutines[g].lres, text |-> Head(goroutines[g].out)])
    /\ goroutines' = [goroutines EXCEPT
            ![g].out = Tail(@),
            ![g].pc = IF Len(goroutines[g].out) = 1 THEN "Log.ret" ELSE "Log.write"]
    /\ UNCHANGED <<heap, single>>

\* Log has returned: LogError sets the status, ServeHTTP returns
GoLogReturn(g) ==
    /\ goroutines[g].pc = "Log.ret"
    /\ IF goroutines[g].ret = "LogError"
       THEN /\ heap' = [heap EXCEPT ![goroutines[g].lres].status = goroutines[g].log.status]
            /\ goroutines' = [goroutines EXCEPT ![g].pc = "handler"]
       ELSE /\ goroutines' = [goroutines EXCEPT ![g].pc = "returned"]
            /\ UNCHANGED heap
    /\ UNCHANGED <<sharedLog, single>>

\* the main variables as Init leaves them
SingleIdle ==
    /\ pc = "idle"
    /\ status = 0
    /\ wroteBytes = 0
    /\ sentBytes = 0
    /\ wrote = FALSE
    /\ logWriter = <<>>
    /\ ResponseWriter = <<>>
    /\ calls = <<>>
    /\ hijacker = FALSE
    /\ req = [RemoteAddr |-> <<"1", "0", ".", "1", ":", "8", "0">>]

InitConc ==
    /\ SingleIdle
    /\ goroutines = [g \in 1..NumRequests |-> Unstarted("idle")]
    /\ heap = <<>>
    /\ sharedLog = <<>>

NextConc ==
    \/ \E g \in DOMAIN goroutines : GoServeHTTP(g)
    \/ \E g \in DOMAIN goroutines : GoWrite(g, 10)
    \/ \E g \in DOMAIN goroutines : GoLogError(g, 500, <<"EOF">>)
    \/ \E g \in DOMAIN goroutines : GoReturn(g, 2500000)
    \/ \E g \in DOMAIN goroutines : GoLogCheck(g)
    \/ \E g \in DOMAIN goroutines : GoLogSet(g)
    \/ \E g \in DOMAIN goroutines : GoSinkWrite(g)
    \/ \E g \in DOMAIN goroutines : GoLogReturn(g)

ConcSpec == InitConc /\ [][NextConc]_vars

\* one request whose handler may start one goroutine of its own
InitRace ==
    /\ SingleIdle
    /\ goroutines = <<Unstarted("idle"), Unstarted("unstarted")>>
    /\ heap = <<>>
    /\ sharedLog = <<>>

NextRace ==
    \/ \E g, h \in DOMAIN goroutines : GoSpawn(g, h)
    \/ NextConc

RaceSpec == InitRace /\ [][NextRace]_vars

\* a write the sink received is one whole line
WholeLine(t) ==
    /\ Len(t) = 11
    /\ t[11] = "\n"
    /\ \A k \in 1..10 : t[k] # "\n"

WritesFrom(i) == {k \in DOMAIN sharedLog : sharedLog[k].from = i}

(***************************************************************************)
(* C15: with requests served concurrently over one log sink, every write   *)
(* the sink receives is one complete line, so no line is cut by another    *)
(* request's; when all requests have returned the log holds exactly one    *)
(* line per request; and no two requests use the same                      *)
(* LoggingResponseWriter: a writer's counters show its own request's       *)
(* writes only.                                                            *)
(***************************************************************************)
C15_OneWholeLinePerRequest ==
    /\ \A k \in DOMAIN sharedLog : WholeLine(sharedLog[k].text)
    /\ (\A g \in DOMAIN goroutines : goroutines[g].pc = "returned") =>
           \A g \in DOMAIN goroutines :
               /\ Cardinality(WritesFrom(goroutines[g].lres)) = 1
               /\ \A k \in WritesFrom(goroutines[g].lres) :
                      sharedLog[k].text[4] = "/" \o ToString(g)
    /\ \A g, h \in DOMAIN goroutines :
           (g # h /\ goroutines[g].pc # "idle" /\ goroutines[h].pc # "idle") =>
               goroutines[g].lres # goroutines[h].lres
    /\ \A g \in DOMAIN goroutines :
           goroutines[g].pc # "idle" =>
               heap[goroutines[g].lres].sentBytes = goroutines[g].sent

C15_Witness ==
    /\ \A g \in DOMAIN goroutines : goroutines[g].pc = "returned"
    /\ Len(sharedLog) = 2
    /\ sharedLog[1].from = goroutines[2].lres
    /\ sharedLog[1].text[10] = "\"EOF\""
    /\ sharedLog[2].from = goroutines[1].lres
    /\ sharedLog[2].text[7] = "10"

(***************************************************************************)
(* C16: at most one record per LoggingResponseWriter also when two         *)
(* goroutines of one request run Log at the same time: the test of the     *)
(* already-logged flag cannot pass for both.                               *)
(***************************************************************************)
C16_AtMostOneRecordPerWriter ==
    \A i \in DOMAIN heap : Cardinality(WritesFrom(i)) <= 1

====
